---- MODULE Spec2Model ----
(***************************************************************************)
(* Model of the novel cog (src/cogs/novel.py): the page-request handler    *)
(* Novel.on_interaction, the /new command Novel.new_novel and the /call    *)
(* command Novel.call_novel, run as asyncio tasks over one database and    *)
(* one process-wide set in_page.                                           *)
(*                                                                         *)
(* Every `await` on the database or on the generator is two steps: the     *)
(* collaborator performs the call (Db*, Gen* actions), and later the task  *)
(* resumes with the result.  Between the two any other task may run, as in *)
(* the asyncio event loop.  Code between two awaits is one atomic step.    *)
(*                                                                         *)
(* A text is a sequence of characters.  The Japanese characters of the     *)
(* source are written with ASCII names: "o" "wa" "ri" for the three        *)
(* characters of the completion word, "tsugi" "no" "pe" "-" "ji" for the   *)
(* five characters of the continuation prompt, "NL" for the newline.       *)
(***************************************************************************)
EXTENDS Integers, Sequences, FiniteSets, TLC

VARIABLES store, in_page, tasks, views

vars == <<store, in_page, tasks, views>>

(* ------------------------------ bounds ---------------------------------- *)

\* Number of interactions (tasks) the event loop runs in one behaviour.
MaxTasks == 3

Tasks == 1..MaxTasks

\* Longest text and largest chunk size given to split_by_chunk when it is
\* checked on its own (SpecChunk).
MaxTextLen == 5
MaxChunk == 3

\* Session ids random_id can return, premises and users of the model.
Ids == {"n1", "n2"}
Stories == {"P"}
Users == {1}

(* ------------------------------- texts ---------------------------------- *)

\* Characters str.rstrip removes in trim_page_text: the set "\n(次のページ)".
StripChars == {"NL", "(", "tsugi", "no", "pe", "-", "ji", ")"}

\* The marker on_interaction looks for, "(終わり", and the one new_novel
\* looks for, "(終わり)".
EndMarkerOpen == <<"(", "o", "wa", "ri">>
EndMarker == <<"(", "o", "wa", "ri", ")">>

\* Texts the generator may return: a plain page and a last page that ends
\* with the completion marker.
TextPlain == <<"a">>
TextEnd == <<"b", "(", "o", "wa", "ri", ")">>
GenTexts == {TextPlain, TextEnd}

\* The user turn of every generation after the first, "次のページ" (lines
\* 111, 123); premises and prompts are opaque strings.
ContinuePrompt == "tsugi-no-pe-ji"

\* chunk_size's default value (line 40).
ChunkSize == 2048

\* Texts of at most n characters over a two-letter alphabet.
RECURSIVE TextsUpTo(_)
TextsUpTo(n) ==
    IF n = 0 THEN {<<>>}
    ELSE LET shorter == TextsUpTo(n - 1)
         IN shorter \cup {Append(w, c) : w \in shorter, c \in {"a", "b"}}

\* Mutant of split_by_chunk: the remainder shorter than chunk_size is lost.
split_by_chunk_NoRemainder(s, chunk_size) ==
    [k \in 1..(Len(s) \div chunk_size) |->
        SubSeq(s, (k - 1) * chunk_size + 1, k * chunk_size)]

\* Lines 40-41: [s[i : i + chunk_size] for i in range(0, len(s), chunk_size)];
\* a slice stops at the end of s.
split_by_chunk(s, chunk_size) ==
    [k \in 1..((Len(s) + chunk_size - 1) \div chunk_size) |->
        SubSeq(s, (k - 1) * chunk_size + 1,
               IF k * chunk_size < Len(s) THEN k * chunk_size ELSE Len(s))]

\* Python's `pat in text` on strings.
Contains(text, pat) ==
    \E i \in 1..(Len(text) - Len(pat) + 1) :
        SubSeq(text, i, i + Len(pat) - 1) = pat

\* Python's text.rstrip(chars): drop the longest suffix made of chars.
RECURSIVE rstrip(_, _)
rstrip(text, chars) ==
    IF Len(text) > 0 /\ text[Len(text)] \in chars
    THEN rstrip(SubSeq(text, 1, Len(text) - 1), chars)
    ELSE text

trim_page_text(text) == rstrip(text, StripChars)

(* ------------------------------- records -------------------------------- *)

NoRow == [present |-> FALSE, data |-> <<>>, finished |-> FALSE,
          story |-> "", owner |-> 0]

NoView == [novel_id |-> "", page |-> -1, total |-> 0, finished |-> FALSE,
           prev |-> FALSE, next |-> FALSE]

\* A task's locals: content is the generator's answer (content.text), text
\* the page text, chunks its pieces, context the recorded chat history.
IdleTask == [pc |-> "idle", kind |-> "none", novel_id |-> "", page |-> 0,
             row |-> NoRow, history |-> <<>>, finished |-> FALSE,
             story |-> "", owner |-> 0, view |-> NoView,
             outcome |-> "none", generated |-> FALSE, shown |-> FALSE,
             finAtStart |-> FALSE,
             content |-> <<>>, text |-> <<>>, chunks |-> <<>>,
             chunk_size |-> ChunkSize, context |-> <<>>]

\* The view new_novel and call_novel send: page 0, previous disabled, next
\* enabled, the title "page 1 / total" without a completion tag.
FirstPageView(novel_id, total) ==
    [novel_id |-> novel_id, page |-> 0, total |-> total, finished |-> FALSE,
     prev |-> FALSE, next |-> TRUE]

\* Mutants of RenderView: the total hints at a next page of an unfinished
\* session; the next button is compared with len instead of len - 1; the
\* previous button is never disabled.
RenderView_HintNext(novel_id, page, history, finished) ==
    [novel_id |-> novel_id, page |-> page,
     total |-> IF finished THEN Len(history) ELSE Len(history) + 1,
     finished |-> finished,
     prev |-> ~(page <= 0),
     next |-> ~(page >= Len(history) - 1 /\ finished)]
RenderView_NextOffByOne(novel_id, page, history, finished) ==
    [novel_id |-> novel_id, page |-> page, total |-> Len(history),
     finished |-> finished,
     prev |-> ~(page <= 0),
     next |-> ~(page >= Len(history) /\ finished)]
RenderView_PrevAlways(novel_id, page, history, finished) ==
    [novel_id |-> novel_id, page |-> page, total |-> Len(history),
     finished |-> finished,
     prev |-> TRUE,
     next |-> ~(page >= Len(history) - 1 /\ finished)]

\* Lines 147-183 of on_interaction: the page view for `page` of `history`.
RenderView(novel_id, page, history, finished) ==
    LET total_pages == Len(history)
        current_page_number == page + 1
        display_total == IF ~finished /\ page >= total_pages
                         THEN current_page_number ELSE total_pages
    IN [novel_id |-> novel_id, page |-> page, total |-> display_total,
        finished |-> finished,
        prev |-> ~(page <= 0),
        next |-> ~(page >= Len(history) - 1 /\ finished)]

\* Python's history[page] raises IndexError outside -len .. len-1, and a
\* negative page counts from the end.
IndexOk(history, page) == -Len(history) <= page /\ page < Len(history)
Index(history, page) ==
    IF page >= 0 THEN history[page + 1] ELSE history[Len(history) + page + 1]

(* ------------------------------ the state ------------------------------- *)

\* A session created by an earlier run of the process: the database and the
\* messages in the chat outlive the process, in_page does not.
StoredRow == [present |-> TRUE, data |-> <<TextPlain>>, finished |-> FALSE,
              story |-> "P", owner |-> 1]

Init ==
    /\ in_page = {}
    /\ tasks = [t \in Tasks |-> IdleTask]
    /\ \/ /\ store = [i \in Ids |-> NoRow]
          /\ views = {}
       \/ /\ store = [i \in Ids |-> IF i = "n1" THEN StoredRow ELSE NoRow]
          /\ views = {FirstPageView("n1", 1)}

\* Tasks are interchangeable until they start: they start in index order.
CanStart(t) ==
    /\ tasks[t].pc = "idle"
    /\ \A u \in 1..(t - 1) : tasks[u].pc # "idle"

Finish(task, outcome) == [task EXCEPT !.pc = "done", !.outcome = outcome]

(* --------------------------- on_interaction ----------------------------- *)

\* The controls a rendered view offers: the custom ids "prev:<id>:<page>"
\* and "next:<id>:<page>" of its enabled buttons.
Enabled(v, direction) ==
    IF direction = "prev" THEN v.prev ELSE v.next

\* Lines 65-86: a button press arrives; the custom id is split, the page is
\* moved by the direction and the SELECT is sent.
OnInteraction(t) ==
    /\ CanStart(t)
    /\ \E v \in views, direction \in {"prev", "next"} :
        /\ Enabled(v, direction)
        /\ tasks' = [tasks EXCEPT ![t] =
              [IdleTask EXCEPT
                 !.pc = "fetch", !.kind = "nav", !.novel_id = v.novel_id,
                 !.page = IF direction = "prev" THEN v.page - 1 ELSE v.page + 1,
                 !.finAtStart = store[v.novel_id].finished]]
    /\ UNCHANGED <<store, in_page, views>>

\* The database runs "SELECT * FROM novels WHERE id = $1" (lines 86, 265).
DbSelect(t) ==
    LET task == tasks[t]
        row == store[task.novel_id]
    IN
    /\ task.pc = "fetch"
    /\ tasks' = [tasks EXCEPT ![t] =
          [task EXCEPT !.pc = "fetched", !.row = row, !.history = row.data,
                       !.finished = row.finished, !.story = row.story]]
    /\ UNCHANGED <<store, in_page, views>>

\* Mutants of IsFrontier: every request on an unfinished session takes the
\* generate path; so does every request at or beyond the frontier.
IsFrontier_AnyPage(page, history, finished) == ~finished
IsFrontier_Beyond(page, history, finished) == page >= Len(history) /\ ~finished

\* Line 95: the request is for the next, not yet generated page.
IsFrontier(page, history, finished) == page = Len(history) /\ ~finished

\* Mutants of IsBusy: the check is left out; the check looks at another id;
\* one generation anywhere blocks every session.
IsBusy_Never(novel_id) == FALSE
IsBusy_OtherId(novel_id) == \E i \in in_page : i # novel_id
IsBusy_Global(novel_id) == in_page # {}

\* Line 96: a generation for the session is in flight.
IsBusy(novel_id) == novel_id \in in_page

\* Lines 147-185: render history[page] and edit the original response.
Serve(task) ==
    IF IndexOk(task.history, task.page)
    THEN LET text == Index(task.history, task.page)
         IN [task EXCEPT !.pc = "done", !.outcome = "served", !.shown = TRUE,
                         !.text = text,
                         !.chunks = split_by_chunk(text, ChunkSize),
                         !.view = RenderView(task.novel_id, task.page,
                                             task.history, task.finished)]
    ELSE Finish(task, "failed")

ViewsAfter(task) ==
    IF task.shown THEN views \cup {task.view} ELSE views

\* Mutant of BuildContext: every user turn is the premise.
BuildContext_AllPremise(story, history) ==
    [count \in 1..Len(history) |-> [user |-> story, model |-> history[count]]]

\* Lines 110-121: one user/model pair per stored page is recorded in the
\* chat; the first user turn is the premise, the others the prompt.
BuildContext(story, history) ==
    [count \in 1..Len(history) |->
        [user |-> IF count = 1 THEN story ELSE ContinuePrompt,
         model |-> history[count]]]

\* Lines 87-123 and 141-185: the task resumes with the row.
OnInteractionRow(t) ==
    LET task == tasks[t] IN
    /\ task.pc = "fetched"
    /\ task.kind = "nav"
    /\ IF ~task.row.present
       THEN /\ tasks' = [tasks EXCEPT ![t] = Finish(task, "notfound")]
            /\ UNCHANGED <<store, in_page, views>>
       ELSE IF IsFrontier(task.page, task.history, task.finished)
       THEN IF IsBusy(task.novel_id)
            THEN /\ tasks' = [tasks EXCEPT ![t] = Finish(task, "busy")]
                 /\ UNCHANGED <<store, in_page, views>>
            ELSE /\ in_page' = in_page \cup {task.novel_id}
                 /\ tasks' = [tasks EXCEPT ![t] =
                       [task EXCEPT !.pc = "gen", !.generated = TRUE,
                          !.context = BuildContext(task.story, task.history)]]
                 /\ UNCHANGED <<store, views>>
       ELSE IF task.page >= Len(task.history)
       THEN /\ tasks' = [tasks EXCEPT ![t] = Finish(task, "oor")]
            /\ UNCHANGED <<store, in_page, views>>
       ELSE /\ tasks' = [tasks EXCEPT ![t] = Serve(task)]
            /\ views' = ViewsAfter(Serve(task))
            /\ UNCHANGED <<store, in_page>>

\* Mutant of AppendGenerated: a terminal response is not appended.
AppendGenerated_DropTerminal(history, content) ==
    LET text == trim_page_text(content)
    IN [history |-> IF Contains(text, EndMarkerOpen)
                    THEN history ELSE Append(history, text),
        finished |-> Contains(text, EndMarkerOpen)]

\* Lines 124-130: the generated text is trimmed and appended, and the
\* finished flag is computed from the trimmed text.
AppendGenerated(history, content) ==
    LET text == trim_page_text(content)
    IN [history |-> Append(history, text),
        finished |-> Contains(text, EndMarkerOpen)]

\* Lines 123-132: chat.send_message returns; the UPDATE is sent.
GenReturn(t) ==
    LET task == tasks[t] IN
    /\ task.pc = "gen"
    /\ \E content \in GenTexts :
         LET r == AppendGenerated(task.history, content)
         IN tasks' = [tasks EXCEPT ![t] =
               [task EXCEPT !.pc = "persist", !.content = content,
                            !.history = r.history, !.finished = r.finished]]
    /\ UNCHANGED <<store, in_page, views>>

\* Line 123: chat.send_message raises; nothing catches it.
GenFail(t) ==
    /\ tasks[t].pc = "gen"
    /\ tasks' = [tasks EXCEPT ![t] = Finish(@, "failed")]
    /\ UNCHANGED <<store, in_page, views>>

\* Lines 132-137: the database runs the UPDATE.
DbUpdate(t) ==
    LET task == tasks[t] IN
    /\ task.pc = "persist"
    /\ store' = [store EXCEPT ![task.novel_id] =
          [@ EXCEPT !.data = task.history, !.finished = task.finished]]
    /\ tasks' = [tasks EXCEPT ![t] = [task EXCEPT !.pc = "updated"]]
    /\ UNCHANGED <<in_page, views>>

\* Mutant of DbUpdateFail: the pages are written before the call raises.
DbUpdateFail_Partial(t) ==
    /\ tasks[t].pc = "persist"
    /\ store' = [store EXCEPT ![tasks[t].novel_id] =
          [@ EXCEPT !.data = tasks[t].history]]
    /\ tasks' = [tasks EXCEPT ![t] = Finish(@, "failed")]
    /\ UNCHANGED <<in_page, views>>

\* Lines 132-137: pool.execute raises; nothing catches it.
DbUpdateFail(t) ==
    /\ tasks[t].pc = "persist"
    /\ tasks' = [tasks EXCEPT ![t] = Finish(@, "failed")]
    /\ UNCHANGED <<store, in_page, views>>

\* Lines 139 and 147-185: the task resumes after the UPDATE, removes the id
\* from in_page (set.remove raises KeyError for a missing id) and renders.
OnInteractionUpdated(t) ==
    LET task == tasks[t] IN
    /\ task.pc = "updated"
    /\ IF task.novel_id \in in_page
       THEN /\ in_page' = in_page \ {task.novel_id}
            /\ tasks' = [tasks EXCEPT ![t] = Serve(task)]
            /\ views' = ViewsAfter(Serve(task))
       ELSE /\ tasks' = [tasks EXCEPT ![t] = Finish(task, "failed")]
            /\ UNCHANGED <<in_page, views>>
    /\ UNCHANGED store

(* ------------------------------ new_novel ------------------------------- *)

\* random_id(12) returns an id no session and no running /new command has:
\* a collision among 62^12 ids is outside the model.
FreshIds ==
    {i \in Ids : /\ ~store[i].present
                 /\ \A u \in Tasks : ~(tasks[u].pc = "insert" /\ tasks[u].novel_id = i)}

\* Lines 192-203: /new arrives with a premise; the generator is called.
NewNovel(t) ==
    /\ CanStart(t)
    /\ \E story \in Stories, owner \in Users :
         tasks' = [tasks EXCEPT ![t] =
            [IdleTask EXCEPT !.pc = "newgen", !.kind = "new", !.story = story,
                             !.owner = owner, !.generated = TRUE]]
    /\ UNCHANGED <<store, in_page, views>>

\* Lines 203-236: the generator returns; the first-page view is sent with
\* followup.send and then the INSERT is sent, its finished argument being
\* `"(終わり)" in text` of the trimmed text.
NewNovelGenerated(t) ==
    LET task == tasks[t] IN
    /\ task.pc = "newgen"
    /\ \E content \in GenTexts, novel_id \in FreshIds :
         LET text == trim_page_text(content)
             v == FirstPageView(novel_id, 1)
         IN /\ tasks' = [tasks EXCEPT ![t] =
                  [task EXCEPT !.pc = "insert", !.novel_id = novel_id,
                               !.content = content, !.text = text,
                               !.chunks = split_by_chunk(text, ChunkSize),
                               !.history = <<text>>,
                               !.finished = Contains(text, EndMarker),
                               !.shown = TRUE, !.view = v]]
            /\ views' = views \cup {v}
    /\ UNCHANGED <<store, in_page>>

\* Line 203: chat.send_message raises.
NewNovelGenFail(t) ==
    /\ tasks[t].pc = "newgen"
    /\ tasks' = [tasks EXCEPT ![t] = Finish(@, "failed")]
    /\ UNCHANGED <<store, in_page, views>>

\* Mutant of DbInsert: the page is stored once per display chunk and once
\* more, the row keeping no owner.
DbInsert_Chunked(t) ==
    LET task == tasks[t] IN
    /\ task.pc = "insert"
    /\ store' = [store EXCEPT ![task.novel_id] =
          [present |-> TRUE, data |-> task.chunks \o task.history,
           finished |-> task.finished, story |-> task.story, owner |-> 0]]
    /\ tasks' = [tasks EXCEPT ![t] = Finish(task, "created")]
    /\ UNCHANGED <<in_page, views>>

\* Lines 229-236: the database runs the INSERT.
DbInsert(t) ==
    LET task == tasks[t] IN
    /\ task.pc = "insert"
    /\ store' = [store EXCEPT ![task.novel_id] =
          [present |-> TRUE, data |-> task.history, finished |-> task.finished,
           story |-> task.story, owner |-> task.owner]]
    /\ tasks' = [tasks EXCEPT ![t] = Finish(task, "created")]
    /\ UNCHANGED <<in_page, views>>

\* Lines 229-236: pool.execute raises.
DbInsertFail(t) ==
    /\ tasks[t].pc = "insert"
    /\ tasks' = [tasks EXCEPT ![t] = Finish(@, "failed")]
    /\ UNCHANGED <<store, in_page, views>>

(* ------------------------------ call_novel ------------------------------ *)

\* Lines 260-265: /call arrives with a session id; the SELECT is sent.
CallNovel(t) ==
    /\ CanStart(t)
    /\ \E novel_id \in Ids :
         tasks' = [tasks EXCEPT ![t] =
            [IdleTask EXCEPT !.pc = "fetch", !.kind = "call",
                             !.novel_id = novel_id]]
    /\ UNCHANGED <<store, in_page, views>>

\* Lines 266-289: the task resumes with the row and sends page 0.
CallNovelRow(t) ==
    LET task == tasks[t] IN
    /\ task.pc = "fetched"
    /\ task.kind = "call"
    /\ IF ~task.row.present
       THEN /\ tasks' = [tasks EXCEPT ![t] = Finish(task, "notfound")]
            /\ UNCHANGED views
       ELSE LET v == FirstPageView(task.novel_id, Len(task.row.data))
            IN /\ tasks' = [tasks EXCEPT ![t] =
                     [task EXCEPT !.pc = "done", !.outcome = "served",
                                  !.text = task.row.data[1],
                                  !.chunks = split_by_chunk(task.row.data[1],
                                                            ChunkSize),
                                  !.shown = TRUE, !.view = v]]
               /\ views' = views \cup {v}
    /\ UNCHANGED <<store, in_page>>

(* --------------------------- the specification -------------------------- *)

Next ==
    \E t \in Tasks :
        \/ OnInteraction(t)
        \/ DbSelect(t)
        \/ OnInteractionRow(t)
        \/ GenReturn(t)
        \/ GenFail(t)
        \/ DbUpdate(t)
        \/ DbUpdateFail(t)
        \/ OnInteractionUpdated(t)
        \/ NewNovel(t)
        \/ NewNovelGenerated(t)
        \/ NewNovelGenFail(t)
        \/ DbInsert(t)
        \/ DbInsertFail(t)
        \/ CallNovel(t)
        \/ CallNovelRow(t)

Spec == Init /\ [][Next]_vars

(* --------------------------- after a restart ---------------------------- *)

\* The process starts over a database and a chat that an earlier run left
\* behind after the overwrite of a stale request: the session had three
\* pages and has two again, and its message still shows page 2.
RestartRow == [present |-> TRUE, data |-> <<TextPlain, TextPlain>>,
               finished |-> FALSE, story |-> "P", owner |-> 1]

InitRestart ==
    /\ in_page = {}
    /\ tasks = [t \in Tasks |-> IdleTask]
    /\ store = [i \in Ids |-> IF i = "n1" THEN RestartRow ELSE NoRow]
    /\ views = {RenderView("n1", 2, <<TextPlain, TextPlain, TextPlain>>, FALSE)}

SpecRestart == InitRestart /\ [][Next]_vars

(* ------------------------- split_by_chunk alone ------------------------- *)

\* A call split_by_chunk(s, chunk_size) with any text and any size >= 1.
InitChunk ==
    /\ in_page = {}
    /\ views = {}
    /\ store = [i \in Ids |-> NoRow]
    /\ \E s \in TextsUpTo(MaxTextLen), m \in 1..MaxChunk :
          tasks = [t \in Tasks |->
                     IF t = 1
                     THEN [IdleTask EXCEPT !.pc = "split", !.kind = "split",
                                           !.text = s, !.chunk_size = m]
                     ELSE IdleTask]

\* Lines 40-41: the call returns its pieces.
SplitByChunk(t) ==
    /\ tasks[t].pc = "split"
    /\ tasks' = [tasks EXCEPT ![t] =
          [@ EXCEPT !.pc = "done", !.outcome = "split",
                    !.chunks = split_by_chunk(tasks[t].text, tasks[t].chunk_size)]]
    /\ UNCHANGED <<store, in_page, views>>

NextChunk == \E t \in Tasks : SplitByChunk(t)

SpecChunk == InitChunk /\ [][NextChunk]_vars

(* ------------------------------ properties ------------------------------ *)

\* The task is inside the generate-and-persist sequence of on_interaction:
\* after in_page.add (line 100) and before in_page.remove (line 139).
InGenPath(t) == tasks[t].pc \in {"gen", "persist", "updated"}

IsPrefix(s, w) == Len(s) <= Len(w) /\ SubSeq(w, 1, Len(s)) = s

\* The step is task t's database UPDATE.
IsUpdateStep(t) == tasks[t].pc = "persist" /\ tasks'[t].pc = "updated"

\* The step starts a generator call of navigation task t (line 123).
StartsGeneration(t) ==
    tasks'[t].kind = "nav" /\ ~tasks[t].generated /\ tasks'[t].generated

\* The task resumes with a row that makes it a frontier request.
FrontierLoaded(t) ==
    /\ tasks[t].pc = "fetched"
    /\ tasks[t].kind = "nav"
    /\ tasks[t].row.present
    /\ tasks[t].page = Len(tasks[t].row.data)
    /\ ~tasks[t].row.finished

\* C1: for every session id at most one task is between in_page.add and
\* in_page.remove, that task's id is in in_page, and a task answered
\* "busy" has not entered the sequence (it called no generator).
C1_MutualExclusion ==
    /\ \A t, u \in Tasks :
          InGenPath(t) /\ InGenPath(u) /\ tasks[t].novel_id = tasks[u].novel_id
             => t = u
    /\ \A t \in Tasks : InGenPath(t) => tasks[t].novel_id \in in_page
    /\ \A t \in Tasks : tasks[t].outcome = "busy" => ~tasks[t].generated

\* C1 witness: one task generates for a session while a second frontier
\* request for the same session has been answered "busy".
C1_Witness ==
    \E t, u \in Tasks :
        /\ t # u
        /\ InGenPath(t)
        /\ tasks[u].outcome = "busy"
        /\ tasks[u].novel_id = tasks[t].novel_id

\* C2 (as claimed): when the only two requests for a session both loaded
\* the same unfinished row, both asked for its frontier page and both are
\* over, they made exactly one generator call and got exactly one "busy"
\* between them.
C2_ExactlyOneGeneration ==
    \A t, u \in Tasks :
        ( /\ t # u
          /\ tasks[t].kind = "nav" /\ tasks[u].kind = "nav"
          /\ tasks[t].pc = "done" /\ tasks[u].pc = "done"
          /\ tasks[t].novel_id = tasks[u].novel_id
          /\ tasks[t].row = tasks[u].row
          /\ tasks[t].row.present /\ ~tasks[t].row.finished
          /\ tasks[t].page = Len(tasks[t].row.data)
          /\ tasks[u].page = Len(tasks[u].row.data)
          /\ \A w \in Tasks \ {t, u} :
                tasks[w].kind = "nav" => tasks[w].novel_id # tasks[t].novel_id )
        => /\ tasks[t].generated # tasks[u].generated
           /\ (tasks[t].outcome = "busy") # (tasks[u].outcome = "busy")

\* C3 (as claimed): an id is in in_page only while some task is inside the
\* generate-and-persist sequence for it.
C3_LockReleased ==
    \A i \in in_page : \E t \in Tasks : InGenPath(t) /\ tasks[t].novel_id = i

\* C4 (as claimed): every step keeps each stored session and leaves its
\* stored page list a prefix of the new one.
C4_AppendOnly ==
    [][\A i \in Ids :
          store[i].present =>
             store'[i].present /\ IsPrefix(store[i].data, store'[i].data)]_vars

\* C5 (as claimed): once a session is stored finished, every step keeps it
\* finished and keeps its stored page list.
C5_FinishedTerminal ==
    [][\A i \in Ids :
          store[i].present /\ store[i].finished =>
             store'[i].finished /\ store'[i].data = store[i].data]_vars

\* C6 (as claimed): no generator call is started for a session whose stored
\* finished flag is true, and a request that is issued while the flag is
\* true and asks for a page at or beyond the end of the list it loads is
\* answered "out of range".
C6_NoGenerationAfterFinished ==
    [][\A t \in Tasks :
          /\ StartsGeneration(t) => ~store[tasks'[t].novel_id].finished
          /\ ( /\ tasks'[t].kind = "nav" /\ tasks'[t].finAtStart
               /\ tasks[t].pc = "fetched" /\ tasks'[t].pc # "fetched"
               /\ tasks[t].page >= Len(tasks[t].row.data) )
             => tasks'[t].outcome = "oor"]_vars

\* C7 (as claimed): an UPDATE that stores finished = true leaves the stored
\* page list at its previous length.
C7_TerminalNotStored ==
    [][\A t \in Tasks :
          IsUpdateStep(t) /\ tasks[t].finished =>
             /\ store'[tasks[t].novel_id].finished
             /\ Len(store'[tasks[t].novel_id].data)
                   = Len(store[tasks[t].novel_id].data)]_vars

\* C7 (amended): an UPDATE that stores finished = true stores the list the
\* request loaded plus exactly one page, the trimmed terminal response,
\* which contains the marker "(終わり".
C7_TerminalStored ==
    [][\A t \in Tasks :
          IsUpdateStep(t) /\ tasks[t].finished =>
             LET new == store'[tasks[t].novel_id]
                 old == tasks[t].row.data
             IN /\ new.finished
                /\ Len(new.data) = Len(old) + 1
                /\ SubSeq(new.data, 1, Len(old)) = old
                /\ Contains(new.data[Len(new.data)], EndMarkerOpen)]_vars

\* C7 witness: a request has stored finished = true together with its
\* terminal response as the new last page.
C7_Witness ==
    \E t \in Tasks :
        /\ tasks[t].pc = "updated"
        /\ tasks[t].finished
        /\ store[tasks[t].novel_id].finished
        /\ store[tasks[t].novel_id].data = tasks[t].history
        /\ Len(tasks[t].history) = Len(tasks[t].row.data) + 1

\* C8: from in_page.add until the request's own UPDATE no step changes the
\* stored session; in particular the step in which the generator call or
\* the UPDATE fails leaves the stored pages and flag as they were.
C8_FailureKeepsStore ==
    [][\A t \in Tasks :
          tasks[t].pc \in {"gen", "persist"} /\ ~IsUpdateStep(t) =>
             store'[tasks[t].novel_id] = store[tasks[t].novel_id]]_vars

\* C8 witness: a request whose UPDATE failed is over, and the page it had
\* generated is not in the store.
C8_Witness ==
    \E t \in Tasks :
        /\ tasks[t].kind = "nav"
        /\ tasks[t].outcome = "failed"
        /\ Len(tasks[t].history) = Len(tasks[t].row.data) + 1
        /\ store[tasks[t].novel_id].data = tasks[t].row.data
        /\ store[tasks[t].novel_id].finished = tasks[t].row.finished

\* C9: when a frontier request resumes while its id is in in_page, that
\* step ends the request with "busy", starts no generator call and leaves
\* in_page, the store and the rendered views unchanged.
C9_BusyImmediate ==
    [][\A t \in Tasks :
          ( /\ FrontierLoaded(t)
            /\ tasks[t].novel_id \in in_page
            /\ tasks'[t] # tasks[t] )
          => /\ tasks'[t].pc = "done"
             /\ tasks'[t].outcome = "busy"
             /\ ~tasks'[t].generated
             /\ in_page' = in_page
             /\ store' = store
             /\ views' = views]_vars

\* C9 witness: a request was answered "busy" while the holder is still
\* waiting for the generator, and the stored session is as the request
\* loaded it.
C9_Witness ==
    \E t, u \in Tasks :
        /\ tasks[u].outcome = "busy"
        /\ tasks[t].pc = "gen"
        /\ tasks[t].novel_id = tasks[u].novel_id
        /\ tasks[u].novel_id \in in_page
        /\ store[tasks[u].novel_id] = tasks[u].row

\* C10 (as claimed): in the step that delivers a view, the store holds the
\* session with the displayed page, and the displayed total and finished
\* flag are the stored ones.
C10_ViewMatchesStore ==
    [][\A t \in Tasks :
          ~tasks[t].shown /\ tasks'[t].shown =>
             LET v == tasks'[t].view
                 r == store'[v.novel_id]
             IN /\ r.present
                /\ v.page < Len(r.data)
                /\ v.total = Len(r.data)
                /\ v.finished = r.finished]_vars

\* The step changes task t.
Steps(t) == tasks'[t] # tasks[t]

\* C11 (as claimed): the finished flag a request is about to store is true
\* exactly when the generator's answer contains the marker "(終わり)", in
\* on_interaction and in new_novel.
C11_FinishedIffMarker ==
    \A t \in Tasks :
        tasks[t].pc \in {"persist", "insert"} =>
            (tasks[t].finished <=> Contains(tasks[t].content, EndMarker))

\* C12: a step of a /new task changes the store only when it is the INSERT,
\* which adds one row for an id that had none: one page, the trimmed answer
\* of the task's one generator call, with the task's premise and owner; a
\* /new task whose generator call failed has left the store as it was.
C12_CreateStoresOnePage ==
    [][\A t \in Tasks :
          Steps(t) /\ tasks'[t].kind = "new" =>
             IF tasks'[t].outcome = "created"
             THEN LET i == tasks[t].novel_id
                  IN /\ ~store[i].present
                     /\ tasks[t].generated
                     /\ store' = [store EXCEPT ![i] =
                           [present |-> TRUE,
                            data |-> <<trim_page_text(tasks[t].content)>>,
                            finished |-> tasks[t].finished,
                            story |-> tasks[t].story,
                            owner |-> tasks[t].owner]]
                     /\ tasks[t].story \in Stories
                     /\ tasks[t].owner \in Users
             ELSE store' = store]_vars

\* C12 witness: a /new command has stored its one-page session.
C12_Witness ==
    \E t \in Tasks :
        /\ tasks[t].kind = "new"
        /\ tasks[t].outcome = "created"
        /\ store[tasks[t].novel_id].present
        /\ Len(store[tasks[t].novel_id].data) = 1
        /\ store[tasks[t].novel_id].story = tasks[t].story

RECURSIVE Concat(_)
Concat(pieces) ==
    IF pieces = <<>> THEN <<>>
    ELSE Head(pieces) \o Concat(Tail(pieces))

\* C15: the pieces of split_by_chunk(s, m) concatenate to s, every piece
\* but the last has length m, the last has length 1..m, and an empty s has
\* no pieces.
C15_ChunkRoundTrip ==
    \A t \in Tasks :
        tasks[t].outcome = "split" =>
            LET s == tasks[t].text
                m == tasks[t].chunk_size
                pieces == tasks[t].chunks
                n == Len(pieces)
            IN /\ Concat(pieces) = s
               /\ \A k \in 1..(n - 1) : Len(pieces[k]) = m
               /\ n > 0 => 1 <= Len(pieces[n]) /\ Len(pieces[n]) <= m
               /\ s = <<>> => n = 0

\* C15 witness: a text was split into two full pieces and a shorter last
\* one.
C15_Witness ==
    \E t \in Tasks :
        /\ tasks[t].outcome = "split"
        /\ Len(tasks[t].chunks) = 3
        /\ Len(tasks[t].chunks[3]) < tasks[t].chunk_size
        /\ tasks[t].chunks[1] # tasks[t].chunks[2]

\* The task resumes from its SELECT in this step.
Resumes(t) ==
    tasks[t].pc = "fetched" /\ tasks[t].kind = "nav" /\ Steps(t)

\* C13: a request that resumes with a row holding its page (0 <= page <
\* count) is served in that step with the text the row holds at that index,
\* is not answered "busy" and calls no generator, whatever is in in_page,
\* and the step changes neither the store nor in_page.
C13_ReadIsLockFree ==
    [][\A t \in Tasks :
          ( /\ Resumes(t)
            /\ tasks[t].row.present
            /\ 0 <= tasks[t].page
            /\ tasks[t].page < Len(tasks[t].row.data) )
          => /\ tasks'[t].outcome = "served"
             /\ tasks'[t].text = tasks[t].row.data[tasks[t].page + 1]
             /\ ~tasks'[t].generated
             /\ store' = store
             /\ in_page' = in_page]_vars

\* C13 witness: a stored page was served while another request is
\* generating for the same session.
C13_Witness ==
    \E t, u \in Tasks :
        /\ InGenPath(t)
        /\ tasks[u].kind = "nav"
        /\ tasks[u].novel_id = tasks[t].novel_id
        /\ tasks[u].outcome = "served"
        /\ ~tasks[u].generated
        /\ tasks[u].novel_id \in in_page
        /\ tasks[u].text = store[tasks[u].novel_id].data[tasks[u].page + 1]

\* C14: the view of a request that generated its page shows the total
\* page + 1, and the view of every served request shows the length of the
\* page list the request holds.
C14_DisplayedTotal ==
    \A t \in Tasks :
        tasks[t].kind = "nav" /\ tasks[t].outcome = "served" =>
            /\ tasks[t].view.total = Len(tasks[t].history)
            /\ tasks[t].generated => tasks[t].view.total = tasks[t].page + 1

\* C14 witness: a frontier request generated a page, the session stays
\* unfinished, and its view shows page + 1 pages.
C14_Witness ==
    \E t \in Tasks :
        /\ tasks[t].kind = "nav"
        /\ tasks[t].outcome = "served"
        /\ tasks[t].generated
        /\ ~tasks[t].finished
        /\ tasks[t].page = Len(tasks[t].row.data)
        /\ tasks[t].view.total = tasks[t].page + 1

\* C16: in the step that starts a generation the recorded context has one
\* user/model pair per loaded page, in order: the premise with page 0, the
\* continuation prompt with every later page; the step leaves the store as
\* it is.
C16_ContextReplay ==
    [][\A t \in Tasks :
          Resumes(t) /\ tasks'[t].pc = "gen" =>
             LET ctx == tasks'[t].context
                 row == tasks[t].row
             IN /\ Len(ctx) = Len(row.data)
                /\ \A i \in 1..Len(ctx) :
                      /\ ctx[i].model = row.data[i]
                      /\ ctx[i].user = IF i = 1 THEN row.story
                                       ELSE ContinuePrompt
                /\ store' = store]_vars

\* C16 witness: a generation was started with a context of two pairs.
C16_Witness ==
    \E t \in Tasks :
        /\ tasks[t].pc = "gen"
        /\ Len(tasks[t].context) = 2
        /\ tasks[t].context[1].user = tasks[t].row.story
        /\ tasks[t].context[2].user = ContinuePrompt

\* C17: a request that resumes with an unfinished row and a page beyond
\* its frontier ends in that step as "out of range", with no generator
\* call and with in_page and the store unchanged; and a navigation request
\* starts a generator call only when its page is the loaded page count and
\* the loaded flag is false.
C17_BeyondFrontier ==
    [][\A t \in Tasks :
          /\ ( /\ Resumes(t)
               /\ tasks[t].row.present
               /\ ~tasks[t].row.finished
               /\ tasks[t].page > Len(tasks[t].row.data) )
             => /\ tasks'[t].outcome = "oor"
                /\ ~tasks'[t].generated
                /\ in_page' = in_page
                /\ store' = store
          /\ StartsGeneration(t)
             => /\ tasks[t].row.present
                /\ tasks[t].page = Len(tasks[t].row.data)
                /\ ~tasks[t].row.finished]_vars

\* C17 witness: a request beyond the frontier of an unfinished session was
\* answered "out of range".
C17_Witness ==
    \E t \in Tasks :
        /\ tasks[t].kind = "nav"
        /\ tasks[t].outcome = "oor"
        /\ tasks[t].row.present
        /\ ~tasks[t].row.finished
        /\ tasks[t].page > Len(tasks[t].row.data)

\* C18: in the view of a served request the previous button is enabled
\* exactly when page > 0, and the next button exactly when the page is not
\* the last page of a finished session.
C18_Controls ==
    \A t \in Tasks :
        tasks[t].kind = "nav" /\ tasks[t].outcome = "served" =>
            /\ tasks[t].view.prev <=> tasks[t].page > 0
            /\ tasks[t].view.next <=>
                  ~(tasks[t].page = Len(tasks[t].history) - 1
                    /\ tasks[t].finished)

\* C18 witness: the last page of a finished session was served, with the
\* previous button enabled and the next button disabled.
C18_Witness ==
    \E t \in Tasks :
        /\ tasks[t].kind = "nav"
        /\ tasks[t].outcome = "served"
        /\ tasks[t].finished
        /\ tasks[t].page = Len(tasks[t].history) - 1
        /\ tasks[t].view.prev
        /\ ~tasks[t].view.next

\* C19: the page of a navigation request is never negative, and a served
\* page is an index 0 .. count-1 of the list the request holds.
C19_PageInRange ==
    \A t \in Tasks :
        tasks[t].kind = "nav" =>
            /\ tasks[t].page >= 0
            /\ tasks[t].outcome = "served" =>
                  tasks[t].page < Len(tasks[t].history)

\* C19 witness: the previous button of a view rendered before the session
\* finished was pressed after it finished, and page 0 was served.
C19_Witness ==
    \E t \in Tasks :
        /\ tasks[t].kind = "nav"
        /\ tasks[t].outcome = "served"
        /\ tasks[t].page = 0
        /\ tasks[t].finished
        /\ \E v \in views :
              v.novel_id = tasks[t].novel_id /\ v.page = 1 /\ ~v.finished

\* C20: a step of a navigation request leaves the stored row and the
\* in_page membership of every other session unchanged, and the request is
\* answered "busy" only when its own id is in in_page.
C20_SessionsIndependent ==
    [][\A t \in Tasks :
          Steps(t) /\ tasks'[t].kind = "nav" =>
             /\ \A j \in Ids \ {tasks'[t].novel_id} :
                   /\ store'[j] = store[j]
                   /\ (j \in in_page') <=> (j \in in_page)
             /\ tasks'[t].outcome = "busy" /\ tasks[t].outcome # "busy"
                   => tasks[t].novel_id \in in_page]_vars

\* C20 witness: while a generation is in flight for one session, a request
\* for another session has started its own generation.
C20_Witness ==
    \E t, u \in Tasks :
        /\ InGenPath(t)
        /\ InGenPath(u)
        /\ tasks[t].novel_id # tasks[u].novel_id
        /\ in_page = {tasks[t].novel_id, tasks[u].novel_id}

====
